---- MODULE Spec2Model ----
(***************************************************************************)
(* A model of the Matrix value type of smockle/matrix (src/src/index.ts):  *)
(* the constructor and its shape validation, the shape queries, addable /  *)
(* add, multipliable / multiply (built on innerproduct), transpose and     *)
(* map.  A caller constructs two matrices x and y from raw arrays and then *)
(* calls operations on them; res holds the outcome of the last call and    *)
(* ref the identities of the Matrix objects x, y and the last result.      *)
(*                                                                         *)
(* JavaScript values are modelled as tagged records so that the code's     *)
(* run-time probing (Array.isArray(x[0]), typeof x[0] === "number") is     *)
(* evaluated as the code evaluates it.  Array indices are 1-based here and *)
(* 0-based in the source.                                                  *)
(***************************************************************************)
EXTENDS Integers, Sequences, FiniteSets, TLC

VARIABLES x, y, res, ref

vars == <<x, y, res, ref>>

\* ------------------------------------------------------------------ bounds

\* Largest number of rows of a raw nested input.
MaxRows == 2

\* Largest length of a raw flat input and of a row of a raw nested input.
MaxCols == 3

\* ------------------------------------------------------- JavaScript values

\* A finite number.
Num(n) == [t |-> "num", n |-> n, a |-> <<>>]

\* The number NaN (the result of arithmetic on undefined).
NaN == [t |-> "nan", n |-> 0, a |-> <<>>]

\* The value undefined (an index out of range, a callback without return).
Undefined == [t |-> "undef", n |-> 0, a |-> <<>>]

\* An array, holding the sequence s of its elements.
Arr(s) == [t |-> "arr", n |-> 0, a |-> s]

\* typeof e === "number"
TypeofNumber(e) == e.t \in {"num", "nan"}

\* Array.isArray(e)
IsArray(e) == e.t = "arr"

\* v[i] of the source (i is 1-based here): undefined out of range.
At(v, i) == IF i \in 1..Len(v) THEN v[i] ELSE Undefined

\* a + b on JavaScript numbers; undefined and NaN yield NaN.
JsAdd(a, b) == IF a.t = "num" /\ b.t = "num" THEN Num(a.n + b.n) ELSE NaN

\* a * b on JavaScript numbers; undefined and NaN yield NaN.
JsMul(a, b) == IF a.t = "num" /\ b.t = "num" THEN Num(a.n * b.n) ELSE NaN

\* ---------------------------------------------------------------- outcomes

\* A call returned the Matrix whose __value is v.
OkM(v) == [kind |-> "matrix", err |-> "none", val |-> v, num |-> 0, flag |-> FALSE]

\* A call returned the boolean b.
OkB(b) == [kind |-> "bool", err |-> "none", val |-> <<>>, num |-> 0, flag |-> b]

\* A call returned the number n.
OkN(n) == [kind |-> "number", err |-> "none", val |-> <<>>, num |-> n, flag |-> FALSE]

\* A call threw; e is the kind of the error.
Throw(e) == [kind |-> "error", err |-> e, val |-> <<>>, num |-> 0, flag |-> FALSE]

\* TypeError("Matrix must be a number or array of numbers")
InvalidShape == "InvalidShape"

\* TypeError("Matrices are not addable")
NotAddable == "NotAddable"

\* TypeError("Matrices are not multipliable")
NotMultipliable == "NotMultipliable"

\* A TypeError of the JavaScript runtime (a property of undefined, a call of
\* something that is no function).
RuntimeTypeError == "RuntimeTypeError"

\* ------------------------------------------------------------- constructor

\* Mutant of Matrix: the extra nesting check is dropped.
MatrixNoNestingCheck(v) ==
  LET firstRowLength == IF IsArray(At(v, 1)) THEN Len(At(v, 1).a) ELSE 0
  IN  IF /\ firstRowLength > 0
         /\ \E i \in 1..Len(v) : IsArray(v[i]) /\ Len(v[i].a) # firstRowLength
      THEN Throw(InvalidShape)
      ELSE OkM(v)

\* function Matrix(x): throws on extra nesting and on uneven rows, else
\* returns an object whose __value is x.
Matrix(v) ==
  IF IsArray(At(v, 1)) /\ Len(v) = 1
  THEN Throw(InvalidShape)
  ELSE LET firstRowLength == IF IsArray(At(v, 1)) THEN Len(At(v, 1).a) ELSE 0
       IN  IF /\ firstRowLength > 0
              /\ \E i \in 1..Len(v) : IsArray(v[i]) /\ Len(v[i].a) # firstRowLength
           THEN Throw(InvalidShape)
           ELSE OkM(v)

\* ------------------------------------------------------------ shape queries

\* Matrix.prototype.countRows
countRows(v) == IF TypeofNumber(At(v, 1)) THEN 1 ELSE Len(v)

\* Matrix.prototype.countColumns: this.__value[0].length throws when
\* __value[0] is undefined.
countColumns(v) ==
  IF TypeofNumber(At(v, 1)) THEN OkN(Len(v))
  ELSE IF IsArray(At(v, 1)) THEN OkN(Len(At(v, 1).a))
  ELSE Throw(RuntimeTypeError)

\* isMatrix1D
isMatrix1D(v) == countRows(v) = 1

\* ------------------------------------------------------------------ lodash

\* The largest of a finite set of naturals, 0 for the empty set.
MaxOf(S) == IF S = {} THEN 0 ELSE CHOOSE m \in S : \A o \in S : o <= m

\* lodash unzip: the array-like groups of v are regrouped by index; the
\* result has as many groups as the longest group has elements, and a group
\* too short contributes undefined.
unzip(v) ==
  LET groups == SelectSeq(v, IsArray)
      length == MaxOf({Len(groups[g].a) : g \in 1..Len(groups)})
  IN  [index \in 1..length |-> Arr([g \in 1..Len(groups) |-> At(groups[g].a, index)])]

\* --------------------------------------------------------------- callbacks

\* A callback returned the value e.
Ret(e) == [thr |-> "none", e |-> e]

\* A callback threw an error of kind k.
Raise(k) == [thr |-> k, e |-> Undefined]

\* The callback Add hands to map: row.map(...) throws when row is a number.
AddCallback(yv, row, i) ==
  IF ~IsArray(row) THEN Raise(RuntimeTypeError)
  ELSE Ret(Arr([j \in 1..Len(row.a) |->
                 JsAdd(row.a[j],
                       IF IsArray(At(yv, i)) THEN At(At(yv, i).a, j) ELSE Num(0))]))

\* The reduce of innerproduct over the elements j..Len(xv) of xv, with
\* accumulator z: z + _z * _y[j], left to right.
RECURSIVE reduce(_, _, _, _)
reduce(xv, yc, j, z) ==
  IF j > Len(xv) THEN z
  ELSE reduce(xv, yc, j + 1, JsAdd(z, JsMul(xv[j], At(yc, j))))

\* Mutant of innerproduct: column i + 1 of y is read instead of column i.
innerproductNextColumn(xv, yv, i) ==
  LET yc == IF isMatrix1D(yv) THEN At(unzip(<<Arr(yv)>>), i + 1)
            ELSE At(unzip(yv), i + 1)
  IN  IF Len(xv) > 0 /\ ~IsArray(yc) THEN Raise(RuntimeTypeError)
      ELSE Ret(reduce(xv, yc.a, 1, Num(0)))

\* function innerproduct(x, y, i): the inner product of the flat array xv
\* with column i of y.  _y[j] throws when column i does not exist.
innerproduct(xv, yv, i) ==
  LET yc == IF isMatrix1D(yv) THEN At(unzip(<<Arr(yv)>>), i)
            ELSE At(unzip(yv), i)
  IN  IF Len(xv) > 0 /\ ~IsArray(yc) THEN Raise(RuntimeTypeError)
      ELSE Ret(reduce(xv, yc.a, 1, Num(0)))

\* The callback Multiply hands to map when x is no row vector: row i of the
\* result, or undefined when Matrix(x.__value[i]) is no row vector.
MultiplyCallback(xv, yv, z, i) ==
  IF At(xv, i).t = "undef" THEN Raise(RuntimeTypeError)
  ELSE IF ~IsArray(At(xv, i)) THEN Ret(Undefined)
  ELSE LET mx == Matrix(At(xv, i).a)
           cells == [j \in 1..Len(z.a) |-> innerproduct(mx.val, yv, j)]
           thrown == {j \in 1..Len(z.a) : cells[j].thr # "none"}
       IN  IF mx.kind = "error" THEN Raise(mx.err)
           ELSE IF ~isMatrix1D(mx.val) THEN Ret(Undefined)
           ELSE IF thrown # {} THEN Raise(RuntimeTypeError)
           ELSE Ret(Arr([j \in 1..Len(z.a) |-> cells[j].e]))

\* The functions a caller passes to map.
Fns == {"identity", "increment", "addIndex"}

\* A call of the caller's function fn on the element e at index i (0-based
\* in the source): (x) => x, (x) => x + 1 and (x, i) => x + i; on a row the
\* last two add to each element of the row.
Apply(fn, e, i) ==
  LET d == IF fn = "increment" THEN Num(1) ELSE Num(i - 1)
  IN  IF fn = "identity" THEN Ret(e)
      ELSE IF IsArray(e) THEN Ret(Arr([j \in 1..Len(e.a) |-> JsAdd(e.a[j], d)]))
      ELSE Ret(JsAdd(e, d))

\* A function value handed to map: the code of the closure (fn) and the
\* matrices it closes over.
Closure(fn, xv, yv) == [fn |-> fn, x |-> xv, y |-> yv]

\* The call f(e, i) of a function value.
Invoke(f, e, i) ==
  CASE f.fn = "Add.callback" -> AddCallback(f.y, e, i)
    [] f.fn = "Multiply.callback1D" -> innerproduct(f.x, f.y, i)
    [] f.fn = "Multiply.callback2D" -> MultiplyCallback(f.x, f.y, e, i)
    [] OTHER -> Apply(f.fn, e, i)

\* --------------------------------------------------------------------- map

\* Mutant of map: the index is not passed to f (f sees index 0).
mapNoIndex(v, f) ==
  LET r == [i \in 1..Len(v) |-> Invoke(f, v[i], 1)]
      thrown == {i \in 1..Len(v) : r[i].thr # "none"}
  IN  IF thrown # {}
      THEN Throw(r[CHOOSE i \in thrown : \A o \in thrown : i <= o].thr)
      ELSE Matrix([i \in 1..Len(v) |-> r[i].e])

\* Matrix.prototype.map: Matrix(this.__value.map(f)).  Both branches of the
\* source run the same code (they differ in a type argument only).  An
\* error thrown by a call of f ends the map; the first one is reported.
map(v, f) ==
  LET r == [i \in 1..Len(v) |-> Invoke(f, v[i], i)]
      thrown == {i \in 1..Len(v) : r[i].thr # "none"}
  IN  IF thrown # {}
      THEN Throw(r[CHOOSE i \in thrown : \A o \in thrown : i <= o].thr)
      ELSE Matrix([i \in 1..Len(v) |-> r[i].e])

\* Mutant of mapThis: the results of f are written back into this.__value.
mapThisInPlace(v, f) == [i \in 1..Len(v) |-> Invoke(f, v[i], i).e]

\* this.__value after this.map(f): Array.prototype.map builds a new array
\* and writes nothing to the array it reads.
mapThis(v, f) == v

\* ----------------------------------------------------------- addable / add

\* Matrix.addable.  && evaluates countColumns only when the row counts agree.
addable(xv, yv) ==
  IF countRows(xv) # countRows(yv) THEN OkB(FALSE)
  ELSE IF countColumns(xv).kind = "error" THEN countColumns(xv)
  ELSE IF countColumns(yv).kind = "error" THEN countColumns(yv)
  ELSE OkB(countColumns(xv).num = countColumns(yv).num)

\* Mutant of Add: the addable check is dropped.
AddUnchecked(xv, yv) == map(xv, Closure("Add.callback", xv, yv))

\* x.__value after Add(x, y): written by nothing but x.map, when it is reached.
AddThis(xv, yv) ==
  IF addable(xv, yv).kind = "bool" /\ addable(xv, yv).flag
  THEN mapThis(xv, Closure("Add.callback", xv, yv))
  ELSE xv

\* function Add(x, y)
Add(xv, yv) ==
  IF addable(xv, yv).kind = "error" THEN addable(xv, yv)
  ELSE IF ~addable(xv, yv).flag THEN Throw(NotAddable)
  ELSE map(xv, Closure("Add.callback", xv, yv))

\* ------------------------------------------------- multipliable / multiply

\* Matrix.multipliable
multipliable(xv, yv) ==
  IF countColumns(xv).kind = "error" THEN countColumns(xv)
  ELSE OkB(countColumns(xv).num = countRows(yv))

\* The part of Multiply after the multipliable check.
Product(xv, yv) ==
  IF isMatrix1D(xv)
  THEN LET z == Matrix(<<Num(0)>>)
       IN  IF z.kind = "error" THEN z
           ELSE map(z.val, Closure("Multiply.callback1D", xv, yv))
  ELSE IF countColumns(yv).kind = "error" THEN countColumns(yv)
  ELSE LET z == Matrix([r \in 1..countRows(xv) |->
                         Arr([c \in 1..countColumns(yv).num |-> Num(0)])])
       IN  IF z.kind = "error" THEN z
           ELSE map(z.val, Closure("Multiply.callback2D", xv, yv))

\* function Multiply(x, y)
Multiply(xv, yv) ==
  IF multipliable(xv, yv).kind = "error" THEN multipliable(xv, yv)
  ELSE IF ~multipliable(xv, yv).flag THEN Throw(NotMultipliable)
  ELSE Product(xv, yv)

\* --------------------------------------------------------------- transpose

\* Matrix.prototype.transpose
transpose(v) ==
  IF isMatrix1D(v) THEN Matrix(unzip(<<Arr(v)>>)) ELSE Matrix(unzip(v))

\* ------------------------------------------------------------------ invert

\* The failure the linear-algebra collaborator signals (singular, not square).
InversionFailed == "InversionFailed"

\* Mutant of Invert: a failure of inv is caught and x is returned unchanged.
InvertCatches(xv, r) == IF r.thr # "none" THEN Matrix(xv) ELSE Matrix(r.e.a)

\* function Invert(x): Matrix(inv(x.__value)), where r is what inv returned
\* or threw for x.__value.
Invert(xv, r) == IF r.thr # "none" THEN Throw(r.thr) ELSE Matrix(r.e.a)

\* ------------------------------------------------------------ presentation

\* A call returned the string whose characters are t.
OkS(t) == [kind |-> "string", err |-> "none", val |-> t, num |-> 0, flag |-> FALSE]

\* The decimal digits.
DigitChars == <<"0", "1", "2", "3", "4", "5", "6", "7", "8", "9">>

\* The decimal text of a natural number.
RECURSIVE digits(_)
digits(n) ==
  IF n < 10 THEN <<DigitChars[n + 1]>>
  ELSE digits(n \div 10) \o <<DigitChars[(n % 10) + 1]>>

\* `${e}` for a number and for undefined (a text is a sequence of characters).
String(e) ==
  CASE e.t = "num" -> IF e.n < 0 THEN <<"-">> \o digits(-e.n) ELSE digits(e.n)
    [] e.t = "nan" -> <<"N", "a", "N">>
    [] OTHER -> <<"u", "n", "d", "e", "f", "i", "n", "e", "d">>

\* Array.prototype.join on texts: the texts ts separated by sep.
RECURSIVE join(_, _)
join(ts, sep) ==
  IF Len(ts) = 0 THEN <<>>
  ELSE IF Len(ts) = 1 THEN ts[1]
  ELSE ts[1] \o sep \o join(Tail(ts), sep)

\* Mutant of padStart: the text is padded at its end.
padEnd(t, n) ==
  IF Len(t) >= n THEN t ELSE t \o [k \in 1..(n - Len(t)) |-> " "]

\* lodash padStart: t padded with spaces at its start to the length n.
padStart(t, n) ==
  IF Len(t) >= n THEN t ELSE [k \in 1..(n - Len(t)) |-> " "] \o t

\* String.prototype.replace(/]\[/g, "]\n["): a line break between "]" and "[".
RECURSIVE replace(_)
replace(t) ==
  IF Len(t) < 2 THEN t
  ELSE IF t[1] = "]" /\ t[2] = "[" THEN <<"]", "\n">> \o replace(Tail(t))
  ELSE <<t[1]>> \o replace(Tail(t))

\* The padding of inspect: per column of unzip(this.__value), the largest
\* length of the texts of its elements.
padding(v) ==
  [c \in 1..Len(unzip(v)) |->
     MaxOf({Len(String(unzip(v)[c].a[g])) : g \in 1..Len(unzip(v)[c].a)})]

\* The reduce of inspect over the rows i..Len(v): output + `[ ${...} ]`.
RECURSIVE inspectRows(_, _, _)
inspectRows(v, i, output) ==
  IF i > Len(v) THEN output
  ELSE inspectRows(v, i + 1,
         output \o <<"[", " ">>
           \o join([j \in 1..Len(v[i].a) |->
                      padStart(String(v[i].a[j]), At(padding(v), j))], <<" ">>)
           \o <<" ", "]">>)

\* Matrix.prototype[Symbol.for("nodejs.util.inspect.custom")]
inspect(v) ==
  IF isMatrix1D(v)
  THEN OkS(<<"[", " ">> \o join([j \in 1..Len(v) |-> String(v[j])], <<" ">>)
             \o <<" ", "]">>)
  ELSE OkS(replace(inspectRows(v, 1, <<>>)))

\* ------------------------------------------------------------ method forms

\* Matrix.prototype.addable
addableMethod(this, yv) == addable(this, yv)

\* Matrix.prototype.add
addMethod(this, yv) == Add(this, yv)

\* Matrix.prototype.multipliable
multipliableMethod(this, yv) == multipliable(this, yv)

\* Matrix.prototype.multiply
multiplyMethod(this, yv) == Multiply(this, yv)

\* Matrix.prototype.invert
invertMethod(this, r) == Invert(this, r)

\* ------------------------------------------------------------- the caller

\* The entries of the raw inputs are distinct per position: k + 10 * i + j
\* at row i, column j (row 0 for a flat input), for an offset k.  With the
\* offset -12 a matrix holds negative numbers, zero and numbers of one and
\* of two digits.
Offsets == {0, -12}

\* A flat input number[] of length n.
FlatInput(k, n) == [j \in 1..n |-> Num(k + j)]

\* A nested input number[][] whose row i has length lens[i].
NestedInput(k, lens) ==
  [i \in 1..Len(lens) |-> Arr([j \in 1..lens[i] |-> Num(k + 10 * i + j)])]

\* The lists of row lengths of the nested inputs.
RowLens == UNION {[1..m -> 0..MaxCols] : m \in 1..MaxRows}

\* The raw values a caller passes to Matrix(): number[] and number[][].
Inputs ==
  {FlatInput(k, n) : k \in Offsets, n \in 0..MaxCols}
    \cup {NestedInput(k, lens) : k \in Offsets, lens \in RowLens}

\* The linear-algebra collaborator (mathjs inv) on the grid v: for a square
\* grid it returns some grid of the same shape or signals a failure
\* (singular); for any other grid it signals a failure.
invResults(v) ==
  LET flat == Len(v) = 1 /\ v[1].t = "num"
      grid == /\ Len(v) >= 1
              /\ \A i \in 1..Len(v) : IsArray(v[i]) /\ Len(v[i].a) = Len(v)
  IN  {Raise(InversionFailed)}
        \cup (IF flat THEN {Ret(Arr(FlatInput(k, 1))) : k \in Offsets} ELSE {})
        \cup (IF grid
              THEN {Ret(Arr(NestedInput(k, [i \in 1..Len(v) |-> Len(v)]))) : k \in Offsets}
              ELSE {})

\* A variable of the caller that holds no Matrix yet.
Unset == [kind |-> "unset", err |-> "none", val |-> <<>>, num |-> 0, flag |-> FALSE]

\* The record of a call: the operation, the raw input of a construction (the
\* function of a map), and the outcome.
Call(op, in, out) == [op |-> op, in |-> in, out |-> out]

\* Object.create(Matrix.prototype): a reference to a new object, different
\* from the references live (0 is no reference).
create(live) == CHOOSE n \in 1..(Cardinality(live) + 1) : n \notin live

\* The call op returned or threw out: res records it, and ref the identity
\* of the Matrix it returned, which Matrix() created.
Returns(op, in, out) ==
  /\ res' = Call(op, in, out)
  /\ ref' = [ref EXCEPT !.res = IF out.kind = "matrix"
                                  THEN create({ref.x, ref.y} \ {0}) ELSE 0]

Init ==
  /\ x = Unset
  /\ y = Unset
  /\ res = Call("none", <<>>, Unset)
  /\ ref = [x |-> 0, y |-> 0, res |-> 0]

\* No call has thrown: an error that is thrown ends the caller's run.
Running == res.out.kind # "error"

\* x = Matrix(v): x stays unset when the constructor throws, and otherwise
\* names the object the constructor created.
ConstructX ==
  /\ Running
  /\ x.kind = "unset"
  /\ \E v \in Inputs :
       /\ x' = IF Matrix(v).kind = "matrix" THEN Matrix(v) ELSE x
       /\ res' = Call("Matrix", v, Matrix(v))
       /\ ref' = IF Matrix(v).kind = "matrix"
                 THEN [ref EXCEPT !.x = create({ref.x, ref.y} \ {0}),
                                  !.res = create({ref.x, ref.y} \ {0})]
                 ELSE [ref EXCEPT !.res = 0]
  /\ UNCHANGED y

\* y = Matrix(v), once x is constructed.
ConstructY ==
  /\ Running
  /\ x.kind = "matrix"
  /\ y.kind = "unset"
  /\ \E v \in Inputs :
       /\ y' = IF Matrix(v).kind = "matrix" THEN Matrix(v) ELSE y
       /\ res' = Call("Matrix", v, Matrix(v))
       /\ ref' = IF Matrix(v).kind = "matrix"
                 THEN [ref EXCEPT !.y = create({ref.x, ref.y} \ {0}),
                                  !.res = create({ref.x, ref.y} \ {0})]
                 ELSE [ref EXCEPT !.res = 0]
  /\ UNCHANGED x

\* Both operands are constructed and no call has thrown.
Ready == Running /\ x.kind = "matrix" /\ y.kind = "matrix"

\* Matrix.addable(x, y) and x.addable(y)
AddableOp ==
  /\ Ready
  /\ \/ Returns("Matrix.addable", <<>>, addable(x.val, y.val))
     \/ Returns("addable", <<>>, addableMethod(x.val, y.val))
  /\ UNCHANGED <<x, y>>

\* Matrix.add(x, y) and x.add(y)
AddOp ==
  /\ Ready
  /\ \/ Returns("Matrix.add", <<>>, Add(x.val, y.val))
     \/ Returns("add", <<>>, addMethod(x.val, y.val))
  /\ x' = [x EXCEPT !.val = AddThis(x.val, y.val)]
  /\ UNCHANGED y

\* Matrix.multipliable(x, y) and x.multipliable(y)
MultipliableOp ==
  /\ Ready
  /\ \/ Returns("Matrix.multipliable", <<>>, multipliable(x.val, y.val))
     \/ Returns("multipliable", <<>>, multipliableMethod(x.val, y.val))
  /\ UNCHANGED <<x, y>>

\* Matrix.multiply(x, y) and x.multiply(y)
MultiplyOp ==
  /\ Ready
  /\ \/ Returns("Matrix.multiply", <<>>, Multiply(x.val, y.val))
     \/ Returns("multiply", <<>>, multiplyMethod(x.val, y.val))
  /\ UNCHANGED <<x, y>>

\* x.transpose()
TransposeOp ==
  /\ Ready
  /\ Returns("transpose", <<>>, transpose(x.val))
  /\ UNCHANGED <<x, y>>

\* x.map(fn)
MapOp ==
  /\ Ready
  /\ \E fn \in Fns :
       /\ Returns("map", <<fn>>, map(x.val, Closure(fn, <<>>, <<>>)))
       /\ x' = [x EXCEPT !.val = mapThis(x.val, Closure(fn, <<>>, <<>>))]
  /\ UNCHANGED y

\* Matrix.invert(x) and x.invert()
InvertOp ==
  /\ Ready
  /\ \E r \in invResults(x.val) :
       \/ Returns("Matrix.invert", <<r>>, Invert(x.val, r))
       \/ Returns("invert", <<r>>, invertMethod(x.val, r))
  /\ UNCHANGED <<x, y>>

\* util.inspect(x)
InspectOp ==
  /\ Ready
  /\ Returns("inspect", <<>>, inspect(x.val))
  /\ UNCHANGED <<x, y>>

\* x.countRows()
CountRowsOp ==
  /\ Ready
  /\ Returns("countRows", <<>>, OkN(countRows(x.val)))
  /\ UNCHANGED <<x, y>>

\* x.countColumns()
CountColumnsOp ==
  /\ Ready
  /\ Returns("countColumns", <<>>, countColumns(x.val))
  /\ UNCHANGED <<x, y>>

Next ==
  \/ ConstructX
  \/ ConstructY
  \/ AddableOp
  \/ AddOp
  \/ MultipliableOp
  \/ MultiplyOp
  \/ TransposeOp
  \/ MapOp
  \/ InvertOp
  \/ InspectOp
  \/ CountRowsOp
  \/ CountColumnsOp

Spec == Init /\ [][Next]_vars

\* ------------------------------------------------- the data model's terms

\* A row vector of the data model: a flat sequence of N >= 1 numbers.
IsRowVector(v) == Len(v) >= 1 /\ \A i \in 1..Len(v) : v[i].t = "num"

\* A rectangular matrix of the data model: M >= 2 rows of numbers, all of
\* one length N >= 1.
IsRectangular(v) ==
  /\ Len(v) >= 2
  /\ \A i \in 1..Len(v) :
       /\ IsArray(v[i])
       /\ Len(v[i].a) >= 1
       /\ Len(v[i].a) = Len(v[1].a)
       /\ \A j \in 1..Len(v[i].a) : v[i].a[j].t = "num"

\* A valid matrix of the data model.
IsValid(v) == IsRowVector(v) \/ IsRectangular(v)

\* The row count, column count and element (i, j) of a valid matrix, read
\* from its backing value.
Rows(v) == IF IsRowVector(v) THEN 1 ELSE Len(v)
Cols(v) == IF IsRowVector(v) THEN Len(v) ELSE Len(v[1].a)
Cell(v, i, j) == IF IsRowVector(v) THEN v[j].n ELSE v[i].a[j].n

\* The sum of a sequence of integers.
RECURSIVE SumSeq(_)
SumSeq(s) == IF s = <<>> THEN 0 ELSE s[1] + SumSeq(Tail(s))

\* The sum over k of a[i][k] * b[k][j].
DotCell(a, b, i, j) == SumSeq([k \in 1..Cols(a) |-> Cell(a, i, k) * Cell(b, k, j)])

\* The last call was an Add, a Multiply, an Addable (static or method form).
WasAdd == res.op \in {"Matrix.add", "add"}
WasMultiply == res.op \in {"Matrix.multiply", "multiply"}
WasAddable == res.op \in {"Matrix.addable", "addable"}

\* The last call returned a valid matrix of r rows and c columns.
ReturnedShape(r, c) ==
  /\ res.out.kind = "matrix"
  /\ IsValid(res.out.val)
  /\ Rows(res.out.val) = r
  /\ Cols(res.out.val) = c

\* ------------------------------------------------------------------ claims

\* C1: for every pair of addable matrices A and B (two row vectors of equal
\* length as well as two rectangular matrices of equal shape), Add(A, B)
\* returns a new Matrix of A's row and column counts whose element at each
\* position is A's element plus B's element at that position.
C1_AddIsElementwiseSum ==
  (/\ WasAdd
   /\ IsValid(x.val) /\ IsValid(y.val)
   /\ Rows(x.val) = Rows(y.val) /\ Cols(x.val) = Cols(y.val))
  => /\ ReturnedShape(Rows(x.val), Cols(x.val))
     /\ \A i \in 1..Rows(x.val) : \A j \in 1..Cols(x.val) :
          Cell(res.out.val, i, j) = Cell(x.val, i, j) + Cell(y.val, i, j)

\* C2: for every row vector x (1 x N) and every matrix y with countRows(y) = N,
\* Multiply(x, y) returns a row vector of exactly countColumns(y) entries
\* whose j-th entry is the sum over k of x[k] * y[k][j].
C2_RowVectorProduct ==
  (/\ WasMultiply
   /\ IsRowVector(x.val) /\ IsValid(y.val)
   /\ Rows(y.val) = Len(x.val))
  => /\ ReturnedShape(1, Cols(y.val))
     /\ \A j \in 1..Cols(y.val) :
          Cell(res.out.val, 1, j) = DotCell(x.val, y.val, 1, j)

\* C3: for every rectangular matrix x with M >= 2 rows and every valid matrix
\* y with countColumns(x) = countRows(y), Multiply(x, y) returns a matrix of
\* M rows and countColumns(y) columns whose cell (i, j) is the sum over k of
\* x[i][k] * y[k][j].
C3_RectangularProduct ==
  (/\ WasMultiply
   /\ IsRectangular(x.val) /\ IsValid(y.val)
   /\ Cols(x.val) = Rows(y.val))
  => /\ ReturnedShape(Rows(x.val), Cols(y.val))
     /\ IsRectangular(res.out.val)
     /\ \A i \in 1..Rows(x.val) : \A j \in 1..Cols(y.val) :
          Cell(res.out.val, i, j) = DotCell(x.val, y.val, i, j)

\* C3 witness: a product of two rectangular matrices, the second of two or
\* more columns, was returned.
C3_Witness ==
  /\ WasMultiply
  /\ IsRectangular(x.val) /\ IsRectangular(y.val)
  /\ Cols(x.val) = Rows(y.val)
  /\ Cols(x.val) >= 2 /\ Cols(y.val) >= 2
  /\ res.out.kind = "matrix"

\* C4: for every valid matrix m, transpose(m) returns a new Matrix with
\* countRows = countColumns(m) and countColumns = countRows(m) whose element
\* (i, j) is m's element (j, i); a row vector 1 x N becomes N x 1 for every
\* N >= 1 and a rectangular M x N matrix becomes N x M for every N >= 1.
C4_TransposeSwaps ==
  (res.op = "transpose" /\ IsValid(x.val))
  => /\ res.out.kind = "matrix"
     /\ countRows(res.out.val) = Cols(x.val)
     /\ countColumns(res.out.val) = OkN(Rows(x.val))
     /\ \A i \in 1..Cols(x.val) : \A j \in 1..Rows(x.val) :
          At(At(res.out.val, i).a, j) = Num(Cell(x.val, j, i))

\* C5: for every valid matrix M, transpose(transpose(M)) completes and
\* returns a Matrix equal to M.
C5_TransposeInvolution ==
  (res.op = "transpose" /\ IsValid(x.val))
  => /\ res.out.kind = "matrix"
     /\ transpose(res.out.val) = OkM(x.val)

\* C6: Construct fails with InvalidShape for every sequence-of-sequences
\* input in which some row's length differs from the first row's length,
\* whatever the first row's length is.
C6_UnevenRowsRejected ==
  (/\ res.op = "Matrix"
   /\ Len(res.in) >= 1
   /\ \A i \in 1..Len(res.in) : IsArray(res.in[i])
   /\ \E i \in 1..Len(res.in) : Len(res.in[i].a) # Len(res.in[1].a))
  => res.out = Throw(InvalidShape)

\* C7: Construct rejects with InvalidShape every input whose outer sequence
\* has exactly one element that is itself a sequence, and accepts every
\* non-empty flat sequence of numbers and every sequence of two or more
\* equal-length non-empty rows.
C7_NestingRejectedValidAccepted ==
  res.op = "Matrix"
  => /\ (Len(res.in) = 1 /\ IsArray(res.in[1])) => res.out = Throw(InvalidShape)
     /\ IsValid(res.in) => res.out = OkM(res.in)

\* C7 witness: a singly nested input was rejected.
C7_Witness ==
  /\ res.op = "Matrix"
  /\ Len(res.in) = 1 /\ IsArray(res.in[1]) /\ Len(res.in[1].a) >= 2
  /\ res.out = Throw(InvalidShape)

\* C8: for every pair of valid matrices of incompatible shape, Add raises
\* NotAddable and Multiply raises NotMultipliable; neither returns a Matrix.
C8_IncompatibleShapesRaise ==
  (IsValid(x.val) /\ IsValid(y.val))
  => /\ (WasAdd /\ ~(Rows(x.val) = Rows(y.val) /\ Cols(x.val) = Cols(y.val)))
          => res.out = Throw(NotAddable)
     /\ (WasMultiply /\ Cols(x.val) # Rows(y.val))
          => res.out = Throw(NotMultipliable)

\* C8 witness: an Add of two rectangular matrices of equal row count and
\* different column counts raised NotAddable.
C8_Witness ==
  /\ WasAdd
  /\ IsRectangular(x.val) /\ IsRectangular(y.val)
  /\ Rows(x.val) = Rows(y.val) /\ Cols(x.val) # Cols(y.val)
  /\ res.out = Throw(NotAddable)

\* C9: for every valid matrix no call of Add, Multiply, Transpose or Map
\* with a shape-preserving function raises InvalidShape, and Transpose has
\* no failure path at all.
C9_InvalidShapeOnlyFromConstruct ==
  (IsValid(x.val) /\ IsValid(y.val))
  => /\ (WasAdd \/ WasMultiply \/ res.op \in {"transpose", "map"})
          => res.out.err # InvalidShape
     /\ res.op = "transpose" => res.out.kind = "matrix"

\* C10: for all matrices A and B accepted by the constructor, Addable(A, B)
\* (static and method form) returns true exactly when countRows(A) =
\* countRows(B) and countColumns(A) = countColumns(B), and false otherwise.
C10_AddableIffSameCounts ==
  WasAddable
  => /\ res.out.kind = "bool"
     /\ res.out.flag = (/\ countRows(x.val) = countRows(y.val)
                        /\ countColumns(x.val) = countColumns(y.val))

\* C11: for all matrices A and B accepted by the constructor, Multipliable(A,
\* B) (static and method form) returns true exactly when countColumns(A) =
\* countRows(B), and false otherwise.
C11_MultipliableIffInnerCounts ==
  res.op \in {"Matrix.multipliable", "multipliable"}
  => /\ res.out.kind = "bool"
     /\ res.out.flag = (countColumns(x.val) = OkN(countRows(y.val)))

\* C12: for every matrix the public constructor accepts, countRows() returns
\* 1 when the backing value is a flat sequence and the outer length
\* otherwise, and countColumns() returns the flat sequence's length or the
\* first row's length; neither query raises and 0 is never returned.
C12_ShapeQueries ==
  LET flat == \A i \in 1..Len(x.val) : x.val[i].t = "num"
  IN  /\ res.op = "countRows"
           => /\ res.out = OkN(IF flat THEN 1 ELSE Len(x.val))
              /\ res.out.num # 0
      /\ res.op = "countColumns"
           => /\ res.out.kind = "number"
              /\ res.out.num = (IF flat THEN Len(x.val) ELSE Len(x.val[1].a))
              /\ res.out.num # 0

\* C17: every Matrix returned by a Construct, Add, Multiply, Transpose or Map
\* call has a backing value that is either a flat sequence of N >= 1 numbers
\* or a sequence of M >= 2 rows of numbers of one common length N >= 1.
C17_ReturnedMatricesAreValid ==
  (/\ res.out.kind = "matrix"
   /\ \/ WasAdd \/ WasMultiply
      \/ res.op \in {"Matrix", "transpose", "map"})
  => IsValid(res.out.val)

C14_MapAppliesPerEntry ==
  (res.op = "map" /\ IsValid(x.val))
  => LET fn == res.in[1]
         top(i, j) == IF IsRowVector(x.val) THEN j ELSE i
         d(i, j) == IF fn = "identity" THEN 0
                    ELSE IF fn = "increment" THEN 1 ELSE top(i, j) - 1
     IN  /\ ReturnedShape(Rows(x.val), Cols(x.val))
         /\ \A i \in 1..Rows(x.val) : \A j \in 1..Cols(x.val) :
              Cell(res.out.val, i, j) = Cell(x.val, i, j) + d(i, j)
         /\ fn = "identity" => res.out = OkM(x.val)

\* C14 witness: a map of a rectangular matrix with a function that uses the
\* index returned a Matrix.
C14_Witness ==
  /\ res.op = "map" /\ res.in = <<"addIndex">>
  /\ IsRectangular(x.val)
  /\ res.out.kind = "matrix"

\* C15: for every matrix m, Invert(m) either returns a new Matrix with the
\* same row and column counts as m (the collaborator succeeds) or propagates
\* the collaborator's failure; it never returns a Matrix of another shape.
C15_InvertSameShapeOrFailure ==
  res.op \in {"Matrix.invert", "invert"}
  => LET r == res.in[1]
     IN  /\ r.thr # "none" => res.out = Throw(r.thr)
         /\ r.thr = "none"
              => /\ res.out = OkM(r.e.a)
                 /\ countRows(res.out.val) = countRows(x.val)
                 /\ countColumns(res.out.val) = countColumns(x.val)
                 /\ countColumns(x.val) = OkN(countRows(x.val))

\* C15 witness: the inverse of a square rectangular matrix was returned.
C15_Witness ==
  /\ res.op \in {"Matrix.invert", "invert"}
  /\ IsRectangular(x.val)
  /\ res.out.kind = "matrix"

\* The text of a line of cells: "[ ", the cells separated by single spaces,
\* " ]".
RECURSIVE Spaced(_)
Spaced(ts) ==
  IF Len(ts) = 0 THEN <<>>
  ELSE IF Len(ts) = 1 THEN ts[1]
  ELSE ts[1] \o <<" ">> \o Spaced(Tail(ts))
Line(ts) == <<"[", " ">> \o Spaced(ts) \o <<" ", "]">>

\* The decimal text of element (i, j) of a valid matrix, and the largest
\* width of the texts of column j.
Text(v, i, j) == String(Num(Cell(v, i, j)))
Width(v, j) == MaxOf({Len(Text(v, i, j)) : i \in 1..Rows(v)})

\* Text t with spaces before it up to the width w.
LeftPadded(t, w) == [k \in 1..(w - Len(t)) |-> " "] \o t

\* Line i of the rendering of a rectangular matrix.
PaddedLine(v, i) ==
  Line([j \in 1..Cols(v) |-> LeftPadded(Text(v, i, j), Width(v, j))])

\* C16: Render of a row vector is "[ " + the elements' decimal texts joined
\* by single spaces + " ]" with no padding; Render of a rectangular matrix is
\* one such bracketed line per row joined by newlines, each cell left-padded
\* with spaces to the largest text width of its own column, so that all
\* lines have equal length.
C16_Render ==
  (res.op = "inspect" /\ IsValid(x.val))
  => LET v == x.val
         out == res.out.val
         L == Len(PaddedLine(v, 1))
     IN  /\ res.out.kind = "string"
         /\ IsRowVector(v) => out = Line([j \in 1..Len(v) |-> Text(v, 1, j)])
         /\ IsRectangular(v)
              => /\ Len(out) = Rows(v) * L + (Rows(v) - 1)
                 /\ \A i \in 1..Rows(v) :
                      SubSeq(out, (i - 1) * (L + 1) + 1, (i - 1) * (L + 1) + L)
                        = PaddedLine(v, i)
                 /\ \A k \in 1..Len(out) : (out[k] = "\n") <=> (k % (L + 1) = 0)

\* C16 witness: a rectangular matrix with a column of texts of different
\* widths, one of them negative, was rendered.
C16_Witness ==
  /\ res.op = "inspect"
  /\ IsRectangular(x.val)
  /\ Cell(x.val, 1, 1) < 0
  /\ Len(Text(x.val, 1, 1)) # Len(Text(x.val, 2, 1))
  /\ res.out.kind = "string"

====
